---- MODULE Spec2Model ----
(***************************************************************************)
(* A model of zipdefrag: the header parsers (parser.rs), the page pool and *)
(* archive skeleton (chunks.rs) and the reconstruction driver (lib.rs).    *)
(*                                                                         *)
(* Bytes are naturals 0..255; a byte slice is a sequence of bytes and an   *)
(* offset into it is 0-based, as in the source.  The model checker's        *)
(* integers are 32-bit signed, so a u32 u is held as u when u < 2^31 and as *)
(* u - 2^32 otherwise (the i32 of the same bits); the UNIX timestamp is     *)
(* held as <<days, second of day>>, exact over the whole u32 range.         *)
(***************************************************************************)
EXTENDS Integers, Sequences, FiniteSets, TLC

VARIABLES
    data,        \* FragSys.data: the blob
    page_sz,     \* FragSys.page_sz
    pool,        \* FragSys.pages: the pages still in the pool
    zip_files,   \* rip_a_zip: the skeletons, in discovery order
    pc,          \* rip_a_zip: the driver's position
    eocd_list,   \* find_zips: EOCD candidates still to be processed
    clusters,    \* rip_a_zip: sorted clusters still to be attributed
    zi,          \* rip_a_zip: index of the skeleton being reparsed (step 7 loop)
    rcds,        \* rip_a_zip: reparsed CDs of skeleton zi still to be processed
    outputs,     \* rip_a_zip: the files written, in order
    taken,       \* history: every page get_pg_for_addr has returned
    last,        \* history: what the last driver step did
    truth,       \* history: how the blob was built (the archive inside it)
    inp,         \* parser harness: the byte slice handed to a parser
    res,         \* parser harness: the parser's result
    ppc          \* parser harness: position

vars == << data, page_sz, pool, zip_files, pc, eocd_list, clusters, zi, rcds,
           outputs, taken, last, truth, inp, res, ppc >>

driverVars == << data, page_sz, pool, zip_files, pc, eocd_list, clusters, zi,
                 rcds, outputs, taken, last, truth >>

harnessVars == << inp, res, ppc >>

-----------------------------------------------------------------------------
(* Byte slices *)

Byte == 0..255

\* b[o] with a 0-based offset
At(b, o) == b[o + 1]

\* b[o .. o+n) as a sequence
Slice(b, o, n) == [k \in 1..n |-> b[o + k]]

Zeros(n) == [k \in 1..n |-> 0]

Min(S) == CHOOSE x \in S : \A y \in S : x <= y

\* nom::le_u16 at offset o
le_u16(b, o) == At(b, o) + 256 * At(b, o + 1)

\* nom::le_u32 at offset o (a top byte of 128 or more gives the negative
\* number that stands for a u32 of 2^31 or more)
le_u32(b, o) ==
    At(b, o) + 256 * At(b, o + 1) + 65536 * At(b, o + 2)
    + 16777216 * (IF At(b, o + 3) >= 128 THEN At(b, o + 3) - 256 ELSE At(b, o + 3))

\* a <= b for two u32
u32_le(a, b) == IF (a < 0) = (b < 0) THEN a <= b ELSE b < 0

\* (u + add) / d for a u32 u taken `as usize` and 0 <= add: computed in two
\* 16-bit halves, as u itself may stand for 2^31 or more
usize_add_div(u, add, d) ==
    LET lo == u % 65536
        hi == (u \div 65536) + (IF u < 0 THEN 65536 ELSE 0)
    IN  hi * (65536 \div d) + (hi * (65536 % d) + lo + add) \div d

u16_to_le(u) == << u % 256, u \div 256 >>

u32_to_le(u) ==
    << u % 256, (u \div 256) % 256, (u \div 65536) % 256, (u \div 16777216) % 256 >>

MAGIC_EOCD == << 80, 75, 5, 6 >>
MAGIC_CD   == << 80, 75, 1, 2 >>
MAGIC_LF   == << 80, 75, 3, 4 >>
MAGIC_DD   == << 80, 75, 7, 8 >>

\* nom tag!: "Done" when the slice b[o..] starts with t, "Incomplete" when it is
\* a proper prefix of t, "Error" otherwise
tag(b, o, t) ==
    LET avail == Len(b) - o
        n == IF avail < Len(t) THEN avail ELSE Len(t)
    IN  IF \E k \in 1..n : b[o + k] # t[k] THEN "Error"
        ELSE IF n < Len(t) THEN "Incomplete"
        ELSE "Done"

\* std::str::from_utf8 on s[i..]: the well-formed byte sequences of Unicode
\* (no overlong forms, no surrogates, nothing above U+10FFFF)
RECURSIVE utf8_from(_, _)
utf8_from(s, i) ==
    IF i > Len(s) THEN TRUE
    ELSE LET c == s[i]
             cont(k, lo, hi) == i + k <= Len(s) /\ s[i + k] >= lo /\ s[i + k] <= hi
         IN  IF c < 128 THEN utf8_from(s, i + 1)
             ELSE IF c >= 194 /\ c <= 223
                  THEN cont(1, 128, 191) /\ utf8_from(s, i + 2)
             ELSE IF c = 224
                  THEN cont(1, 160, 191) /\ cont(2, 128, 191) /\ utf8_from(s, i + 3)
             ELSE IF (c >= 225 /\ c <= 236) \/ c = 238 \/ c = 239
                  THEN cont(1, 128, 191) /\ cont(2, 128, 191) /\ utf8_from(s, i + 3)
             ELSE IF c = 237
                  THEN cont(1, 128, 159) /\ cont(2, 128, 191) /\ utf8_from(s, i + 3)
             ELSE IF c = 240
                  THEN cont(1, 144, 191) /\ cont(2, 128, 191) /\ cont(3, 128, 191)
                       /\ utf8_from(s, i + 4)
             ELSE IF c >= 241 /\ c <= 243
                  THEN cont(1, 128, 191) /\ cont(2, 128, 191) /\ cont(3, 128, 191)
                       /\ utf8_from(s, i + 4)
             ELSE IF c = 244
                  THEN cont(1, 128, 143) /\ cont(2, 128, 191) /\ cont(3, 128, 191)
                       /\ utf8_from(s, i + 4)
             ELSE FALSE

from_utf8(s) == utf8_from(s, 1)

\* a take_str that takes the bytes without checking them
take_bytes(b, o, n) == IF Len(b) - o < n THEN "Incomplete" ELSE "Done"

\* nom take_str!(n) on b[o..]
take_str(b, o, n) ==
    IF Len(b) - o < n THEN "Incomplete"
    ELSE IF from_utf8(Slice(b, o, n)) THEN "Done"
    ELSE "Error"

\* The first of the statuses that is not "Done" (do_parse! stops at the first
\* sub-parser that does not succeed), "Done" when all are
RECURSIVE first_fail(_)
first_fail(sts) ==
    IF sts = << >> THEN "Done"
    ELSE IF Head(sts) # "Done" THEN Head(sts)
    ELSE first_fail(Tail(sts))

\* a fixed-width field (le_u16, le_u32) of w bytes at offset o of b
fixed(b, o, w) == IF Len(b) - o < w THEN "Incomplete" ELSE "Done"

NoValue == [none |-> TRUE]

-----------------------------------------------------------------------------
(* DOS date/time and the UNIX epoch (chrono) *)

\* chrono: is y-m-d a date of the proleptic Gregorian calendar
is_leap(y) == (y % 4 = 0 /\ y % 100 # 0) \/ y % 400 = 0

days_in_month(y, m) ==
    IF m = 2 THEN (IF is_leap(y) THEN 29 ELSE 28)
    ELSE IF m \in {4, 6, 9, 11} THEN 30 ELSE 31

date_exists(y, m, d) == m >= 1 /\ m <= 12 /\ d >= 1 /\ d <= days_in_month(y, m)

\* chrono: days from 1970-01-01 to y-m-d
days_from_civil(y, m, d) ==
    LET yy  == IF m <= 2 THEN y - 1 ELSE y
        era == yy \div 400
        yoe == yy - era * 400
        mp  == (m + 9) % 12
        doy == (153 * mp + 2) \div 5 + d - 1
        doe == yoe * 365 + yoe \div 4 - yoe \div 100 + doy
    IN  era * 146097 + doe - 719468

\* chrono: the date that is z days after 1970-01-01, as <<y, m, d>> (the year
\* is one of the two that z / 366 and z / 365 give)
civil_from_days(z) ==
    CHOOSE ymd \in ((1970 + z \div 366)..(1970 + z \div 365)) \X (1..12) \X (1..31) :
        /\ date_exists(ymd[1], ymd[2], ymd[3])
        /\ days_from_civil(ymd[1], ymd[2], ymd[3]) = z

\* `as u32` of a non-negative i64 number of seconds given as days and second of
\* day: 2^32 s = 49710 days and 23296 s, and the dates of the DOS format lie
\* below 2 * 2^32 s
as_u32(days, sod) ==
    IF days > 49710 \/ (days = 49710 /\ sod >= 23296)
    THEN LET dd == days - 49710
             ss == sod - 23296
         IN  IF ss < 0 THEN << dd - 1, ss + 86400 >> ELSE << dd, ss >>
    ELSE << days, sod >>

\* parse_dostime: <<status, h, m, s>>
parse_dostime(b, o) ==
    IF fixed(b, o, 2) # "Done" THEN << "Incomplete", 0, 0, 0 >>
    ELSE LET t == le_u16(b, o)
             h == (t \div 2048) % 32
             m == (t \div 32) % 64
             s == 2 * (t % 32)
         IN  IF h < 24 /\ m < 60 /\ s < 60 THEN << "Done", h, m, s >>
             ELSE << "Error", h, m, s >>

\* parse_dosdate: <<status, y, m, d>>
parse_dosdate(b, o) ==
    IF fixed(b, o, 2) # "Done" THEN << "Incomplete", 0, 0, 0 >>
    ELSE LET d == le_u16(b, o)
             y  == ((d \div 512) % 128) + 1980
             m  == (d \div 32) % 16
             dy == d % 32
         IN  IF y >= 1970 /\ m <= 12 /\ m > 0 /\ dy <= 31 /\ dy > 0
             THEN << "Done", y, m, dy >>
             ELSE << "Error", y, m, dy >>

\* parse_dosdatetime: [st, v] with v the epoch as <<days, second of day>>;
\* st = "Panic" where NaiveDate::from_ymd panics (no such calendar date)
parse_dosdatetime(b, o) ==
    LET make(t, d) ==
            IF t[1] # "Done" THEN [st |-> t[1], v |-> NoValue]
            ELSE IF d[1] # "Done" THEN [st |-> d[1], v |-> NoValue]
            ELSE IF ~date_exists(d[2], d[3], d[4]) THEN [st |-> "Panic", v |-> NoValue]
            ELSE [st |-> "Done",
                  v  |-> as_u32(days_from_civil(d[2], d[3], d[4]),
                                t[2] * 3600 + t[3] * 60 + t[4])]
    IN  make(parse_dostime(b, o), parse_dosdate(b, o + 2))

\* dostime_to_bytes: ts is a u32 epoch as <<days, second of day>>
dostime_to_bytes(ts) ==
    LET hour == ts[2] \div 3600
        mnt  == (ts[2] \div 60) % 60
        sec  == ts[2] % 60
        time == hour * 2048 + mnt * 32 + sec \div 2
        \* ((year - 1980) << 9) as u32 | month << 5 | day, then `as u16`
        date(ymd) == ((ymd[1] - 1980) % 128) * 512 + ymd[2] * 32 + ymd[3]
    IN  u16_to_le(time) \o u16_to_le(date(civil_from_days(ts[1])))

-----------------------------------------------------------------------------
(* Header parsers (parser.rs) and re-serialisation (chunks.rs).  A result is *)
(* [st, v, n]: nom's status ("Done", "Error", "Incomplete", and "Panic" for  *)
(* a panic inside the parser), the record, and the bytes consumed.           *)

Fail(st) == [st |-> st, v |-> NoValue, n |-> 0]

bit(u, k) == (u \div (2 ^ k)) % 2

\* bitflags ZipFlags: the bits of the ten named flags
ZipFlagsBits == {0, 1, 2, 3, 4, 5, 6, 11, 13}

\* ZipFlags::from_bits_truncate
from_bits_truncate(u) ==
    LET RECURSIVE sum(_)
        sum(S) == IF S = {} THEN 0
                  ELSE LET k == CHOOSE k \in S : TRUE
                       IN  bit(u, k) * (2 ^ k) + sum(S \ {k})
    IN  sum(ZipFlagsBits)

\* ZipFlags::contains(DATA_DESCRIPTOR)
has_data_descriptor(flags) == bit(flags, 3) = 1

\* parse_dd
parse_dd(b, o) ==
    LET t == tag(b, o, MAGIC_DD)
        fields(skip) ==
            IF fixed(b, o + skip, 12) # "Done" THEN Fail("Incomplete")
            ELSE [st |-> "Done",
                  v  |-> [crc32 |-> le_u32(b, o + skip),
                          z_sz  |-> le_u32(b, o + skip + 4),
                          u_sz  |-> le_u32(b, o + skip + 8)],
                  n  |-> skip + 12]
    IN  IF t = "Incomplete" THEN Fail("Incomplete")
        ELSE fields(IF t = "Done" THEN 4 ELSE 0)

\* parse_eocd
parse_eocd(b, o) ==
    LET st1 == first_fail(<< tag(b, o, MAGIC_EOCD),
                             fixed(b, o + 4, 2), fixed(b, o + 6, 2),
                             fixed(b, o + 8, 2), fixed(b, o + 10, 2),
                             fixed(b, o + 12, 4), fixed(b, o + 16, 4),
                             fixed(b, o + 20, 2) >>)
    IN  IF st1 # "Done" THEN Fail(st1)
        ELSE LET cmt_len == le_u16(b, o + 20)
                 st2 == take_str(b, o + 22, cmt_len)
             IN  IF st2 # "Done" THEN Fail(st2)
                 ELSE [st |-> "Done",
                       v  |-> [dsk_no      |-> le_u16(b, o + 4),
                               dsk_w_cd    |-> le_u16(b, o + 6),
                               dsk_entries |-> le_u16(b, o + 8),
                               tot_entries |-> le_u16(b, o + 10),
                               cd_sz       |-> le_u32(b, o + 12),
                               cd_offset   |-> le_u32(b, o + 16),
                               cmt_len     |-> cmt_len,
                               zip_cmt     |-> Slice(b, o + 22, cmt_len)],
                       n  |-> 22 + cmt_len]

\* parse_cd
parse_cd(b, o) ==
    LET st1 == first_fail(<< tag(b, o, MAGIC_CD),
                             fixed(b, o + 4, 2), fixed(b, o + 6, 2),
                             fixed(b, o + 8, 2), fixed(b, o + 10, 2) >>)
        \* after the DD (which ends at p): the lengths, attributes and name
        tail(ts, dd, p) ==
            LET st2 == first_fail(<< fixed(b, p, 2), fixed(b, p + 2, 2),
                                     fixed(b, p + 4, 2), fixed(b, p + 6, 2),
                                     fixed(b, p + 8, 2), fixed(b, p + 10, 4),
                                     fixed(b, p + 14, 4) >>)
                fn_len == le_u16(b, p)
                st3 == take_str(b, p + 18, fn_len)
            IN  IF st2 # "Done" THEN Fail(st2)
                ELSE IF st3 # "Done" THEN Fail(st3)
                ELSE [st |-> "Done",
                      v  |-> [v_made_by |-> le_u16(b, o + 4),
                              v_needed  |-> le_u16(b, o + 6),
                              gp_flags  |-> from_bits_truncate(le_u16(b, o + 8)),
                              method    |-> le_u16(b, o + 10),
                              timestamp |-> ts.v,
                              dd        |-> dd.v,
                              fn_len    |-> fn_len,
                              ef_len    |-> le_u16(b, p + 2),
                              fc_len    |-> le_u16(b, p + 4),
                              dsk_no_s  |-> le_u16(b, p + 6),
                              int_attr  |-> le_u16(b, p + 8),
                              ext_attr  |-> le_u32(b, p + 10),
                              lf_offset |-> le_u32(b, p + 14),
                              filename  |-> Slice(b, p + 18, fn_len)],
                      n  |-> p + 18 + fn_len - o]
        after_dd(ts, dd) == IF dd.st # "Done" THEN Fail(dd.st)
                            ELSE tail(ts, dd, o + 16 + dd.n)
        after_ts(ts) == IF ts.st # "Done" THEN Fail(ts.st)
                        ELSE after_dd(ts, parse_dd(b, o + 16))
    IN  IF st1 # "Done" THEN Fail(st1)
        ELSE after_ts(parse_dosdatetime(b, o + 12))

\* parse_lf
parse_lf(b, o) ==
    LET st1 == first_fail(<< tag(b, o, MAGIC_LF),
                             fixed(b, o + 4, 2), fixed(b, o + 6, 2),
                             fixed(b, o + 8, 2) >>)
        \* after the DD (which ends at p): the lengths and the name
        tail(ts, dd, p) ==
            LET st2 == first_fail(<< fixed(b, p, 2), fixed(b, p + 2, 2) >>)
                fn_len == le_u16(b, p)
                st3 == take_str(b, p + 4, fn_len)
            IN  IF st2 # "Done" THEN Fail(st2)
                ELSE IF st3 # "Done" THEN Fail(st3)
                ELSE [st |-> "Done",
                      v  |-> [v_needed  |-> le_u16(b, o + 4),
                              gp_flags  |-> from_bits_truncate(le_u16(b, o + 6)),
                              method    |-> le_u16(b, o + 8),
                              timestamp |-> ts.v,
                              dd        |-> dd.v,
                              fn_len    |-> fn_len,
                              ef_len    |-> le_u16(b, p + 2),
                              filename  |-> Slice(b, p + 4, fn_len)],
                      n  |-> p + 4 + fn_len - o]
        after_dd(ts, dd) == IF dd.st # "Done" THEN Fail(dd.st)
                            ELSE tail(ts, dd, o + 14 + dd.n)
        after_ts(ts) == IF ts.st # "Done" THEN Fail(ts.st)
                        ELSE after_dd(ts, parse_dd(b, o + 14))
    IN  IF st1 # "Done" THEN Fail(st1)
        ELSE after_ts(parse_dosdatetime(b, o + 10))

\* DD::unparse
dd_unparse(dd) == u32_to_le(dd.crc32) \o u32_to_le(dd.z_sz) \o u32_to_le(dd.u_sz)

\* LF::unparse
lf_unparse(lf) ==
    MAGIC_LF \o u16_to_le(lf.v_needed) \o u16_to_le(lf.gp_flags) \o u16_to_le(lf.method)
    \o dostime_to_bytes(lf.timestamp)
    \o (IF has_data_descriptor(lf.gp_flags) THEN Zeros(12) ELSE dd_unparse(lf.dd))
    \o u16_to_le(lf.fn_len) \o u16_to_le(lf.ef_len) \o lf.filename

\* CD::to_lf
to_lf(cd) ==
    [v_needed |-> cd.v_needed, gp_flags |-> cd.gp_flags, method |-> cd.method,
     timestamp |-> cd.timestamp, dd |-> cd.dd, fn_len |-> cd.fn_len,
     ef_len |-> cd.ef_len, filename |-> cd.filename]

\* CD::to_euclidean: the clustering fingerprint (gp_flags.bits() is its fifth
\* coordinate)
to_euclidean(cd) ==
    << cd.timestamp, cd.method, cd.v_made_by, cd.v_needed, cd.gp_flags >>

-----------------------------------------------------------------------------
(* Pages, the page pool (FragSys) and the archive skeleton (ZipFile) *)

\* Page::Assigned(s..e) and Page::Unassigned
Assigned(s, e) == [asg |-> TRUE, s |-> s, e |-> e]
Unassigned == [asg |-> FALSE, s |-> 0, e |-> 0]

\* Page::contains
contains(page, addr) == page.asg /\ page.s <= addr /\ addr < page.e

\* FragSys::from_file: the page map of a blob of len bytes
from_file(len, ps) ==
    LET pg_count == len \div ps + (IF len % ps > 0 THEN 1 ELSE 0)
    IN  [pg \in 1..pg_count |-> Assigned((pg - 1) * ps, ps * pg)]

\* a swap_remove that drops the last element whatever idx is
swap_remove_last(v, idx) == [k \in 1..(Len(v) - 1) |-> v[k]]

\* Vec::swap_remove(idx), idx 1-based here: the last element takes the place
\* of the removed one
swap_remove(v, idx) ==
    [k \in 1..(Len(v) - 1) |-> IF k = idx THEN v[Len(v)] ELSE v[k]]

\* a get_pg_for_addr that leaves the page in the pool
get_pg_for_addr_keep(pl, address) ==
    LET matches == {i \in 1..Len(pl) : contains(pl[i], address)}
    IN  IF Cardinality(matches) = 1
        THEN [found |-> TRUE, page |-> pl[CHOOSE i \in matches : TRUE], pool |-> pl]
        ELSE [found |-> FALSE, page |-> Unassigned, pool |-> pl]

\* FragSys::get_pg_for_addr: [found, page, pool], pool being the pool afterwards
get_pg_for_addr(pl, address) ==
    LET matches == {i \in 1..Len(pl) : contains(pl[i], address)}
    IN  IF Cardinality(matches) = 1
        THEN LET i == CHOOSE i \in matches : TRUE
             IN  [found |-> TRUE, page |-> pl[i], pool |-> swap_remove(pl, i)]
        ELSE [found |-> FALSE, page |-> Unassigned, pool |-> pl]

\* FragSys::find_bytes (the method): the offsets of a 4-byte pattern, ascending,
\* as <<status, offsets>>.  `len - pattern.len()` underflows on a blob shorter
\* than the pattern: a panic in a debug build, and in a release build a range
\* so long that the slice index panics.
RECURSIVE SetToSeq(_)
SetToSeq(S) == IF S = {} THEN << >>
               ELSE LET m == Min(S) IN << m >> \o SetToSeq(S \ {m})

fragsys_find_bytes(d, pattern) ==
    IF Len(d) < Len(pattern) THEN << "Abort", << >> >>
    ELSE LET range == Len(d) - Len(pattern)
         IN  << "Ok", SetToSeq({i \in 0..(range - 1) : Slice(d, i, 4) = pattern}) >>

\* find_bytes (the free function): windows(..).position(..) from a cursor that
\* moves past each hit
find_bytes(d, pattern) ==
    LET hits == {i \in 0..(Len(d) - Len(pattern)) : Slice(d, i, Len(pattern)) = pattern}
        RECURSIVE scan(_)
        scan(cursor) ==
            IF \E i \in hits : i >= cursor
            THEN LET ptr == Min({i \in hits : i >= cursor})
                 IN  << ptr >> \o scan(ptr + Len(pattern))
            ELSE << >>
    IN  scan(0)

\* ZipFile::new: [out, zf, pool] with out = "Ok", "Err" (the EOCD does not
\* parse) or "Abort".  The usize subtractions underflow when the archive end
\* lies before the offsets subtracted from it: a panic in a debug build; a
\* release build wraps to a page count near 2^64 / ps, whose allocation fails.
ZipFile_new(d, ps, pl, ptr) ==
    LET none == [init_offs |-> 0, eocd |-> NoValue, pages |-> << >>]
        eocd_pg_offs == ptr % ps
        skeleton(eocd, init_offs, pg_count, g) ==
            [out  |-> "Ok",
             zf   |-> [init_offs |-> init_offs, eocd |-> eocd,
                       pages |-> [k \in 1..(pg_count + 1) |->
                                     IF g.found /\ k = pg_count
                                     THEN g.page ELSE Unassigned]],
             pool |-> g.pool]
        sized(eocd, eocd_offs, init_offs) ==
            IF eocd_offs - eocd_pg_offs < init_offs
            THEN [out |-> "Abort", zf |-> none, pool |-> pl]
            ELSE skeleton(eocd, init_offs,
                          (IF eocd_pg_offs > 0 THEN 1 ELSE 0)
                          + (IF init_offs > 0 THEN 1 ELSE 0)
                          + (eocd_offs - eocd_pg_offs - init_offs) \div ps,
                          get_pg_for_addr(pl, ptr))
        placed(eocd, eocd_offs) ==
            IF eocd_offs < eocd_pg_offs
            THEN [out |-> "Abort", zf |-> none, pool |-> pl]
            ELSE sized(eocd, eocd_offs, ps - ((eocd_offs - eocd_pg_offs) % ps))
        \* cd_sz + cd_offset in u32 overflows (a panic in a debug build); an
        \* archive end of 2^31 and more asks for 2^31 / ps slots and more, which
        \* are not represented here: both are taken as the process ending
        parsed(r) ==
            IF r.st # "Done" THEN [out |-> "Err", zf |-> none, pool |-> pl]
            ELSE IF r.v.cd_sz < 0 \/ r.v.cd_offset < 0
                    \/ r.v.cd_sz > 2147483647 - r.v.cd_offset
                 THEN [out |-> "Abort", zf |-> none, pool |-> pl]
            ELSE placed(r.v, r.v.cd_sz + r.v.cd_offset)
    IN  parsed(parse_eocd(d, ptr))

\* ZipFile::get_pg_idx_for_offs
get_pg_idx_for_offs(zf, offs, pg_sz) == usize_add_div(offs, zf.init_offs, pg_sz)

\* ZipFile::get_cd_start_pg_idx
get_cd_start_pg_idx(zf, pg_sz) == get_pg_idx_for_offs(zf, zf.eocd.cd_offset, pg_sz)

\* ZipFile::assign_pages: <<status, pages>>; Vec::splice panics on a range
\* that ends past the vector
assign_pages(pages, insertion_pt, content) ==
    LET end == insertion_pt + Len(content)
    IN  IF end > Len(pages) THEN << "Abort", pages >>
        ELSE << "Ok", [k \in 1..Len(pages) |->
                          IF k > insertion_pt /\ k <= end
                          THEN content[k - insertion_pt] ELSE pages[k]] >>

\* ZipFile::assign_page: <<status, pages>>; the guard lets idx = len through
\* to the indexing, which panics
assign_page(pages, idx, page) ==
    IF idx <= Len(pages)
    THEN IF idx = Len(pages) THEN << "Abort", pages >>
         ELSE << "Ok", [pages EXCEPT ![idx + 1] = page] >>
    ELSE << "Ok", pages >>

HoleSz == 1024

\* ZipFile::render_pages: <<status, bytes>>; slicing the blob by a page range
\* that ends past the blob panics
RECURSIVE render_from(_, _, _)
render_from(pages, d, k) ==
    IF k > Len(pages) THEN << >>
    ELSE (IF pages[k].asg THEN Slice(d, pages[k].s, pages[k].e - pages[k].s)
          ELSE Zeros(HoleSz))
         \o render_from(pages, d, k + 1)

render_pages(pages, d) ==
    IF \E k \in 1..Len(pages) : pages[k].asg /\ pages[k].e > Len(d)
    THEN << "Abort", << >> >>
    ELSE << "Ok", render_from(pages, d, 1) >>

\* CD::new / CD::from_data over a list of offsets: <<status, instances>>, each
\* instance a CDInstance [ptr, hdr]; "Abort" when a parse panics
RECURSIVE parse_cds(_, _)
parse_cds(d, ptrs) ==
    LET join(r, rest) ==
            IF r.st = "Panic" THEN << "Abort", << >> >>
            ELSE IF rest[1] # "Ok" THEN rest
            ELSE IF r.st = "Done"
                 THEN << "Ok", << [ptr |-> Head(ptrs), hdr |-> r.v] >> \o rest[2] >>
            ELSE rest
    IN  IF ptrs = << >> THEN << "Ok", << >> >>
        ELSE join(parse_cd(d, Head(ptrs)), parse_cds(d, Tail(ptrs)))

\* FragSys::find_cds
fragsys_find_cds(d) == parse_cds(d, find_bytes(d, MAGIC_CD))

\* ZipFile::find_cds
zipfile_find_cds(pages, d) ==
    LET from_data(rendered) ==
            IF rendered[1] # "Ok" THEN << "Abort", << >> >>
            ELSE parse_cds(rendered[2], find_bytes(rendered[2], MAGIC_CD))
    IN  from_data(render_pages(pages, d))

\* FragSys::find_lf: <<status, found, ptr>>; comparing against a slice that
\* runs past the blob panics
find_lf(d, lf, lfp) ==
    LET RECURSIVE go(_, _)
        go(k, bytes) ==
            IF k > Len(lfp) THEN << "Ok", FALSE, 0 >>
            ELSE IF lfp[k] + Len(bytes) > Len(d) THEN << "Abort", FALSE, 0 >>
            ELSE IF Slice(d, lfp[k], Len(bytes)) = bytes THEN << "Ok", TRUE, lfp[k] >>
            ELSE go(k + 1, bytes)
    IN  go(1, lf_unparse(lf))

-----------------------------------------------------------------------------
(* Clustering (analysis.rs) *)

\* The permutations of a sequence
RECURSIVE Perms(_)
Perms(s) ==
    IF s = << >> THEN {<< >>}
    ELSE UNION {{<< s[i] >> \o t :
                   t \in Perms([k \in 1..(Len(s) - 1) |-> IF k < i THEN s[k] ELSE s[k + 1]])} :
                i \in 1..Len(s)}

\* sort_unstable_by on lf_offset: every ordering of the cluster that ascends
\* in lf_offset (the order of equal keys is not specified)
sorted_by_lf_offset(c) ==
    {t \in Perms(c) :
        \A i \in 1..(Len(t) - 1) : u32_le(t[i].hdr.lf_offset, t[i + 1].hdr.lf_offset)}

\* analysis::cluster, then step 4: every way k-means may split the instances
\* into k clusters (each instance in one cluster, in input order), each
\* cluster then sorted.  The result is a set of lists of clusters.
RECURSIVE sorted_lists(_)
sorted_lists(cs) ==
    IF cs = << >> THEN {<< >>}
    ELSE {<< h >> \o t : h \in sorted_by_lf_offset(Head(cs)), t \in sorted_lists(Tail(cs))}

RECURSIVE select_seq(_, _, _)
select_seq(insts, f, j) ==
    IF insts = << >> THEN << >>
    ELSE (IF Head(f) = j THEN << Head(insts) >> ELSE << >>)
         \o select_seq(Tail(insts), Tail(f), j)

cluster(insts, k) ==
    UNION {sorted_lists([j \in 1..k |-> select_seq(insts, f, j)]) :
              f \in [1..Len(insts) -> 1..k]}

-----------------------------------------------------------------------------
(* The driver, rip_a_zip (lib.rs) *)

NoLast == [op |-> "none", z |-> 0, at |-> 0, n |-> 0]

\* step 0 and the scan of step 1: the page map, then the EOCD candidates
Start ==
    /\ pc = "start"
    /\ pool' = from_file(Len(data), page_sz)
    /\ LET f == fragsys_find_bytes(data, MAGIC_EOCD)
       IN  /\ eocd_list' = f[2]
           /\ pc' = IF f[1] = "Abort" THEN "abort" ELSE "find_zips"
    /\ last' = [NoLast EXCEPT !.op = "from_file"]
    /\ UNCHANGED << data, page_sz, zip_files, clusters, zi, rcds, outputs, taken,
                    truth, harnessVars >>

\* find_zips: one turn of its loop, ZipFile::new on the next EOCD candidate
FindZip ==
    /\ pc = "find_zips"
    /\ eocd_list # << >>
    /\ \E ptr \in {Head(eocd_list)} :
       \E r \in {ZipFile_new(data, page_sz, pool, ptr)} :
           /\ pool' = r.pool
           /\ zip_files' = IF r.out = "Ok" THEN Append(zip_files, r.zf) ELSE zip_files
           /\ pc' = IF r.out = "Abort" THEN "abort" ELSE pc
           /\ taken' = IF Len(r.pool) < Len(pool)
                       THEN taken \cup {get_pg_for_addr(pool, ptr).page} ELSE taken
           /\ last' = [op |-> r.out, z |-> Len(zip_files'), at |-> ptr,
                       n |-> Len(pool) - Len(r.pool)]
    /\ eocd_list' = Tail(eocd_list)
    /\ UNCHANGED << data, page_sz, clusters, zi, rcds, outputs, truth, harnessVars >>

\* step 2 panics inside a CD parse
FindCdsAbort ==
    /\ pc = "find_zips"
    /\ eocd_list = << >>
    /\ fragsys_find_cds(data)[1] = "Abort"
    /\ pc' = "abort"
    /\ last' = [NoLast EXCEPT !.op = "find_cds_abort"]
    /\ UNCHANGED << data, page_sz, pool, zip_files, eocd_list, clusters, zi, rcds,
                    outputs, taken, truth, harnessVars >>

\* steps 2 to 4: the CDs of the blob are clustered with k = the number of
\* skeletons, and each cluster is sorted
ClusterOk ==
    /\ pc = "find_zips"
    /\ eocd_list = << >>
    /\ \E c \in {fragsys_find_cds(data)} :
           /\ c[1] = "Ok"
           /\ \E cs \in cluster(c[2], Len(zip_files)) : clusters' = cs
    /\ pc' = "attribute"
    /\ last' = [NoLast EXCEPT !.op = "cluster"]
    /\ UNCHANGED << data, page_sz, pool, zip_files, eocd_list, zi, rcds, outputs,
                    taken, truth, harnessVars >>

\* step 3 fails (k-means does not converge): the `if let Ok(..)` is skipped
\* and the function returns Ok("We Did it!")
ClusterErr ==
    /\ pc = "find_zips"
    /\ eocd_list = << >>
    /\ fragsys_find_cds(data)[1] = "Ok"
    /\ pc' = "done"
    /\ last' = [NoLast EXCEPT !.op = "cluster_err"]
    /\ UNCHANGED << data, page_sz, pool, zip_files, eocd_list, clusters, zi, rcds,
                    outputs, taken, truth, harnessVars >>

\* (tot_entries - |cluster|)^2 of lib.rs:109
sq_diff(zf, n) == (zf.eocd.tot_entries - n) * (zf.eocd.tot_entries - n)

\* a min_by that returns the last of the skeletons of least sq_diff
min_by_idx_last(zfs, n) ==
    CHOOSE i \in 1..Len(zfs) :
        /\ \A j \in 1..Len(zfs) : sq_diff(zfs[i], n) <= sq_diff(zfs[j], n)
        /\ \A j \in (i + 1)..Len(zfs) : sq_diff(zfs[i], n) < sq_diff(zfs[j], n)

\* Iterator::min_by: the first of the skeletons of least sq_diff
min_by_idx(zfs, n) ==
    Min({i \in 1..Len(zfs) : \A j \in 1..Len(zfs) : sq_diff(zfs[i], n) <= sq_diff(zfs[j], n)})

\* lib.rs:115-119: the pages of the cluster's instances, taken from the pool in
\* order; <<pages, pool>>
RECURSIVE take_pages(_, _)
take_pages(pl, insts) ==
    LET join(g, rest) ==
            << (IF g.found THEN << g.page >> ELSE << >>) \o rest[1], rest[2] >>
        next(g) == join(g, take_pages(g.pool, Tail(insts)))
    IN  IF insts = << >> THEN << << >>, pl >>
        ELSE next(get_pg_for_addr(pl, Head(insts).ptr))

SeqSet(s) == {s[i] : i \in 1..Len(s)}

\* step 5: one turn of the loop over the clusters
AttributeCluster ==
    /\ pc = "attribute"
    /\ clusters # << >>
    /\ IF zip_files = << >>
       THEN /\ UNCHANGED << pool, zip_files, taken, pc >>
            /\ last' = [NoLast EXCEPT !.op = "no_zip"]
       ELSE LET c == Head(clusters)
                z == min_by_idx(zip_files, Len(c))
                cd_pg_idx == get_cd_start_pg_idx(zip_files[z], page_sz)
                t == take_pages(pool, c)
                a == assign_pages(zip_files[z].pages, cd_pg_idx, t[1])
            IN  /\ pool' = t[2]
                /\ taken' = taken \cup SeqSet(t[1])
                /\ zip_files' = [zip_files EXCEPT ![z].pages = a[2]]
                /\ pc' = IF a[1] = "Abort" THEN "abort" ELSE pc
                /\ last' = [op |-> "assign_pages", z |-> z, at |-> cd_pg_idx,
                            n |-> Len(t[1])]
    /\ clusters' = Tail(clusters)
    /\ UNCHANGED << data, page_sz, eocd_list, zi, rcds, outputs, truth, harnessVars >>

\* the loop over the clusters ends; the loop over the skeletons begins
EndAttribute ==
    /\ pc = "attribute"
    /\ clusters = << >>
    /\ pc' = "reparse_zip"
    /\ zi' = 1
    /\ last' = [NoLast EXCEPT !.op = "end_attribute"]
    /\ UNCHANGED << data, page_sz, pool, zip_files, eocd_list, clusters, rcds,
                    outputs, taken, truth, harnessVars >>

\* step 7: the skeleton is rendered and its CDs are parsed again
ReparseZip ==
    /\ pc = "reparse_zip"
    /\ zi <= Len(zip_files)
    /\ LET f == zipfile_find_cds(zip_files[zi].pages, data)
       IN  /\ rcds' = f[2]
           /\ pc' = IF f[1] = "Abort" THEN "abort" ELSE "place_lf"
    /\ last' = [NoLast EXCEPT !.op = "find_cds", !.z = zi]
    /\ UNCHANGED << data, page_sz, pool, zip_files, eocd_list, clusters, zi,
                    outputs, taken, truth, harnessVars >>

\* step 7, one reparsed CD: its LF is searched in the blob and the LF's page
\* is placed in the skeleton
PlaceLF ==
    /\ pc = "place_lf"
    /\ rcds # << >>
    /\ LET cd == Head(rcds).hdr
           lfp == fragsys_find_bytes(data, MAGIC_LF)[2]
           fl == find_lf(data, to_lf(cd), lfp)
           g == get_pg_for_addr(pool, fl[3])
           idx == get_pg_idx_for_offs(zip_files[zi], cd.lf_offset, page_sz)
           a == assign_page(zip_files[zi].pages, idx, g.page)
       IN  IF fl[1] = "Abort"
           THEN /\ pc' = "abort"
                /\ last' = [NoLast EXCEPT !.op = "find_lf_abort", !.z = zi]
                /\ UNCHANGED << pool, zip_files, taken >>
           ELSE IF fl[2] /\ g.found
           THEN /\ pool' = g.pool
                /\ taken' = taken \cup {g.page}
                /\ zip_files' = [zip_files EXCEPT ![zi].pages = a[2]]
                /\ pc' = IF a[1] = "Abort" THEN "abort" ELSE pc
                /\ last' = [op |-> "assign_page", z |-> zi, at |-> idx, n |-> 1]
           ELSE /\ last' = [NoLast EXCEPT !.op = IF fl[2] THEN "lf_page_gone" ELSE "no_lf",
                                           !.z = zi, !.at = fl[3]]
                /\ UNCHANGED << pool, zip_files, taken, pc >>
    /\ rcds' = Tail(rcds)
    /\ UNCHANGED << data, page_sz, eocd_list, clusters, zi, outputs, truth, harnessVars >>

\* step 7, the end of a turn: the skeleton is rendered and written to {i}.zip
\* (the file system is taken to accept the file)
WriteZip ==
    /\ pc = "place_lf"
    /\ rcds = << >>
    /\ LET r == render_pages(zip_files[zi].pages, data)
       IN  IF r[1] = "Abort"
           THEN /\ pc' = "abort"
                /\ UNCHANGED << outputs, zi >>
           ELSE /\ outputs' = Append(outputs, r[2])
                /\ zi' = zi + 1
                /\ pc' = "reparse_zip"
    /\ last' = [NoLast EXCEPT !.op = "render", !.z = zi]
    /\ UNCHANGED << data, page_sz, pool, zip_files, eocd_list, clusters, rcds,
                    taken, truth, harnessVars >>

\* the loop over the skeletons ends
Finish ==
    /\ pc = "reparse_zip"
    /\ zi > Len(zip_files)
    /\ pc' = "done"
    /\ last' = [NoLast EXCEPT !.op = "finish"]
    /\ UNCHANGED << data, page_sz, pool, zip_files, eocd_list, clusters, zi, rcds,
                    outputs, taken, truth, harnessVars >>

-----------------------------------------------------------------------------
(* The blobs the driver is started on: ZIP archives written as an archiver  *)
(* writes them (LF and data per file, then the CDs, then the EOCD), placed  *)
(* in filler, cut into pages and the pages reordered.                       *)

Filler(n) == [k \in 1..n |-> 238]

\* 2016-04-29 17:35:18, the timestamp of the parser tests, plus day days
Stamp(day) == << 16920 + day, 63318 >>

\* file i of archive a: its headers' common fields
FileRec(a, i, dlen) ==
    [v_needed |-> 20, gp_flags |-> 0, method |-> 8, timestamp |-> Stamp(a),
     dd |-> [crc32 |-> 4096 * a + i, z_sz |-> dlen, u_sz |-> dlen],
     fn_len |-> 1, ef_len |-> 0, filename |-> << 96 + i >>]

\* LF header and data of file i
LFBytes(a, i, dlen) == lf_unparse(FileRec(a, i, dlen)) \o [k \in 1..dlen |-> 160 + i]

LFSize(dlen) == 31 + dlen

\* CD header of file i
CDBytes(a, i, dlen) ==
    LET f == FileRec(a, i, dlen)
    IN  MAGIC_CD \o u16_to_le(20 + a) \o u16_to_le(f.v_needed) \o u16_to_le(f.gp_flags)
        \o u16_to_le(f.method) \o dostime_to_bytes(f.timestamp) \o dd_unparse(f.dd)
        \o u16_to_le(f.fn_len) \o u16_to_le(f.ef_len) \o u16_to_le(0) \o u16_to_le(0)
        \o u16_to_le(0) \o u32_to_le(0) \o u32_to_le((i - 1) * LFSize(dlen))
        \o f.filename

RECURSIVE Concat(_)
Concat(ss) == IF ss = << >> THEN << >> ELSE Head(ss) \o Concat(Tail(ss))

EOCDBytes(n, cd_sz, cd_offset, cmt) ==
    MAGIC_EOCD \o u16_to_le(0) \o u16_to_le(0) \o u16_to_le(n) \o u16_to_le(n)
    \o u32_to_le(cd_sz) \o u32_to_le(cd_offset) \o u16_to_le(Len(cmt)) \o cmt

\* archive a: n files of dlen data bytes each, and a comment of clen bytes
Archive(a, n, dlen, clen) ==
    Concat([i \in 1..n |-> LFBytes(a, i, dlen)])
    \o Concat([i \in 1..n |-> CDBytes(a, i, dlen)])
    \o EOCDBytes(n, 47 * n, n * LFSize(dlen), [k \in 1..clen |-> 67])

\* the pages of a blob in the order perm
Shuffle(b, ps, perm) ==
    Concat([k \in 1..Len(perm) |->
               Slice(b, (perm[k] - 1) * ps,
                     IF perm[k] * ps <= Len(b) THEN ps ELSE Len(b) - (perm[k] - 1) * ps)])


\* b with the bytes at offset o replaced by w
Patch(b, o, w) == [k \in 1..Len(b) |-> IF k > o /\ k <= o + Len(w) THEN w[k - o] ELSE b[k]]

\* the page orders tried: as written, reversed, rotated by one page
PageOrder(code, np) ==
    IF code = 1 THEN [k \in 1..np |-> np + 1 - k]
    ELSE IF code = 2 THEN [k \in 1..np |-> (k % np) + 1]
    ELSE [k \in 1..np |-> k]

PagesOf(b, ps) == (Len(b) + ps - 1) \div ps

MaxFiles == 2

\* one archive in filler, its pages in place
Singles ==
    {[kind |-> "single", ps |-> 64, p |-> p, n |-> n, dlen |-> d, clen |-> c,
      q |-> q, order |-> 0] :
        p \in {0, 10, 33, 40, 63}, n \in 1..MaxFiles, d \in {5, 40, 100},
        c \in {0, 70}, q \in {0, 20}}
    \cup
    {[kind |-> "single", ps |-> 1024, p |-> p, n |-> 2, dlen |-> d, clen |-> 0,
      q |-> 100, order |-> 0] : p \in {0, 700}, d \in {600, 1500}}

\* one archive, its pages out of order
Shuffled ==
    {[kind |-> "shuffled", ps |-> 64, p |-> p, n |-> n, dlen |-> d, clen |-> 0,
      q |-> 20, order |-> o] :
        p \in {0, 10}, n \in 1..MaxFiles, d \in {40, 100}, o \in {1, 2}}

\* two archives of one file each, one after the other, pages in or out of order
Pairs ==
    {[kind |-> "pair", ps |-> 64, p |-> p, n |-> 1, dlen |-> d, clen |-> 0,
      q |-> q, order |-> o] :
        p \in {0, 10}, d \in {40, 100}, q \in {7, 20}, o \in {0, 1}}

\* damaged blobs: a CD whose DOS date is 30 February, an EOCD signature cut
\* off by the end of the blob, a blob shorter than a signature, an archive
\* followed by a second one of three files whose EOCD is not in the blob
Damaged ==
    {[kind |-> k, ps |-> 64, p |-> 10, n |-> 1, dlen |-> 40, clen |-> 0,
      q |-> 20, order |-> 0] : k \in {"baddate", "cut_eocd", "tiny", "lost_eocd"}}

\* two archives one after the other, the first of one file and the second
\* of two, pages in or out of order
Mixed ==
    {[kind |-> "mixed", ps |-> 64, p |-> p, n |-> 1, dlen |-> d, clen |-> 0,
      q |-> q, order |-> o] :
        p \in {0, 10}, d \in {40, 100}, q \in {7, 20}, o \in {0, 1}}

Blobs == Singles \cup Shuffled \cup Pairs \cup Mixed \cup Damaged

BlobOf(t) ==
    LET one == Filler(t.p) \o Archive(1, t.n, t.dlen, t.clen) \o Filler(t.q)
        two == one \o Archive(2, t.n, t.dlen + 3, t.clen) \o Filler(t.q)
        mix == one \o Archive(2, t.n + 1, t.dlen + 3, t.clen) \o Filler(t.q)
        shuffled(b) == Shuffle(b, t.ps, PageOrder(t.order, PagesOf(b, t.ps)))
    IN  CASE t.kind = "single"   -> one
          [] t.kind = "shuffled" -> shuffled(one)
          [] t.kind = "pair"     -> shuffled(two)
          [] t.kind = "mixed"    -> shuffled(mix)
          [] t.kind = "baddate"  -> Patch(one, t.p + t.n * LFSize(t.dlen) + 14, << 94, 0 >>)
          [] t.kind = "cut_eocd" -> one \o MAGIC_EOCD \o << 0, 0, 0, 0, 0, 0 >>
          [] t.kind = "tiny"     -> << 80, 75 >>
          [] t.kind = "lost_eocd" ->
                 one \o Slice(Archive(2, 3, t.dlen + 3, 0), 0,
                              3 * LFSize(t.dlen + 3) + 3 * 47)

\* where the archive of a "single" blob lies in it
ArchiveStart(t) == t.p
ArchiveLen(t) == t.n * LFSize(t.dlen) + 47 * t.n + 22 + t.clen

HarnessIdle == inp = << >> /\ res = NoValue /\ ppc = "idle"

Init ==
    /\ \E t \in Blobs :
         /\ truth = t
         /\ data = BlobOf(t)
         /\ page_sz = t.ps
    /\ pool = << >>
    /\ zip_files = << >>
    /\ pc = "start"
    /\ eocd_list = << >>
    /\ clusters = << >>
    /\ zi = 0
    /\ rcds = << >>
    /\ outputs = << >>
    /\ taken = {}
    /\ last = NoLast
    /\ HarnessIdle

Next ==
    \/ Start
    \/ FindZip
    \/ FindCdsAbort
    \/ ClusterOk
    \/ ClusterErr
    \/ AttributeCluster
    \/ EndAttribute
    \/ ReparseZip
    \/ PlaceLF
    \/ WriteZip
    \/ Finish

Spec == Init /\ [][Next]_vars

-----------------------------------------------------------------------------
(* Properties of the pipeline *)

\* the Assigned slots of all skeletons, as <<skeleton, slot>>
AssignedSlots ==
    UNION {{<< z, k >> : k \in {k \in 1..Len(zip_files[z].pages) : zip_files[z].pages[k].asg}} :
              z \in 1..Len(zip_files)}

\* every page held anywhere: << 0, i >> for entry i of the pool, << z, k >> for
\* slot k of skeleton z
Held == {<< 0, i >> : i \in 1..Len(pool)} \cup AssignedSlots

PageAt(h) == IF h[1] = 0 THEN pool[h[2]] ELSE zip_files[h[1]].pages[h[2]]

Running == pc \notin {"start", "abort"}

\* C1: at every point of the pipeline the pages in the pool plus the Assigned
\* slots of all skeletons number ceil(N / page_sz): no page taken from the
\* pool is dropped or overwritten.
C1_PagesConserved ==
    Running => Len(pool) + Cardinality(AssignedSlots) = Len(from_file(Len(data), page_sz))

\* C2: once get_pg_for_addr has returned a page, a call with any address in
\* that page's range returns none, whatever was taken in between.
C2_TakenOnce ==
    \A page \in taken : \A addr \in page.s..(page.e - 1) :
        ~get_pg_for_addr(pool, addr).found

\* C2, its case: step 7 found an LF whose page had been taken before, and the
\* call for that address returned none
C2_TakenAgainIsNone ==
    /\ last.op = "lf_page_gone"
    /\ \E page \in taken : contains(page, last.at)
    /\ Cardinality(taken) >= 2

\* C3: every page range is in at most one place: once in the pool, or in one
\* slot of one skeleton.
C3_HeldOnce ==
    \A g \in Held : \A h \in Held :
        g # h => (PageAt(g).e <= PageAt(h).s \/ PageAt(h).e <= PageAt(g).s)

\* C3, its case: the run is over, two skeletons hold pages and so does the pool
C3_TwoSkeletonsHoldPages ==
    /\ pc = "done"
    /\ last.op = "finish"
    /\ Len(zip_files) >= 2
    /\ \A z \in 1..Len(zip_files) : \E k \in 1..Len(zip_files[z].pages) : << z, k >> \in AssignedSlots
    /\ Len(pool) >= 1

\* C4: a blob holding one unfragmented archive gives one skeleton, and the
\* file written is the archive's bytes, no more and no less.
C4_SingleArchiveRecovered ==
    (truth.kind = "single" /\ pc = "done" /\ last.op = "finish")
    => /\ Len(zip_files) = 1
       /\ outputs = << Slice(data, ArchiveStart(truth), ArchiveLen(truth)) >>

\* C5: the init_offs of every skeleton lies in 0 .. page_sz - 1.
C5_InitOffsBelowPageSize ==
    \A z \in 1..Len(zip_files) :
        zip_files[z].init_offs >= 0 /\ zip_files[z].init_offs < page_sz

\* C6: the slots of every skeleton cover the archive's end, the EOCD header
\* and the comment: slots * page_sz >= cd_sz + cd_offset + 22 + cmt_len.
C6_SlotsCoverArchive ==
    \A z \in 1..Len(zip_files) :
        Len(zip_files[z].pages) * page_sz
        >= zip_files[z].eocd.cd_sz + zip_files[z].eocd.cd_offset + 22
           + zip_files[z].eocd.cmt_len

\* C12: when the clustering fails, no archive file is written and the driver
\* does not return Ok (pc = "done" is the return of Ok("We Did it!")).
C12_ClusterFailureIsError ==
    last.op = "cluster_err" => (outputs = << >> /\ pc # "done")

\* C13: the pool built from a blob of N bytes holds ceil(N / page_sz) Assigned
\* pages, pairwise disjoint, that cover 0 .. N - 1 and nothing past N.
C13_PoolCoversBlob ==
    last.op = "from_file"
    => /\ Len(pool) = (Len(data) + page_sz - 1) \div page_sz
       /\ \A i \in 1..Len(pool) : pool[i].asg /\ pool[i].s < pool[i].e /\ pool[i].e <= Len(data)
       /\ \A i \in 1..Len(pool) : \A j \in 1..Len(pool) :
              i # j => (pool[i].e <= pool[j].s \/ pool[j].e <= pool[i].s)
       /\ \A addr \in 0..(Len(data) - 1) : \E i \in 1..Len(pool) : contains(pool[i], addr)

\* C15: rendering a skeleton succeeds and gives, slot by slot, the blob's bytes
\* of each Assigned range and 1024 zero bytes for each Unassigned slot; the
\* file written in step 7 is that rendering.
C15_RenderConcatenates ==
    last.op \in {"find_cds", "render"}
    => LET pages == zip_files[last.z].pages
           r == render_pages(pages, data)
       IN  /\ r[1] = "Ok"
           /\ r[2] = Concat([k \in 1..Len(pages) |->
                                IF pages[k].asg
                                THEN Slice(data, pages[k].s, pages[k].e - pages[k].s)
                                ELSE Zeros(1024)])
           /\ (last.op = "render" /\ pc # "abort") => outputs[Len(outputs)] = r[2]

\* the geometry ZipFile::new derives from an EOCD at ptr is nonsensical: the
\* archive end lies before eocd_pg_offs, or before eocd_pg_offs + init_offs
GeometryNonsense(eocd, ptr) ==
    LET end == eocd.cd_sz + eocd.cd_offset
        pgo == ptr % page_sz
    IN  end < pgo \/ end < pgo + (page_sz - ((end - pgo) % page_sz))

\* C17: an EOCD candidate that does not parse, or whose geometry is
\* nonsensical, gives no skeleton, and find_zips goes on with the next
\* candidate: the driver does not abort and no skeleton is added.
C17_BadEocdIsDropped ==
    last.op \in {"Ok", "Err", "Abort"}
    => LET r == parse_eocd(data, last.at)
       IN  (r.st # "Done" \/ GeometryNonsense(r.v, last.at))
           => (last.op = "Err" /\ pc = "find_zips" /\ last.n = 0)

C21_SpliceFitsAndKeepsOtherSlots ==
    [][(pc = "attribute" /\ clusters # << >> /\ zip_files # << >>)
       => LET z == last'.z
              at == last'.at
              n == last'.n
              slots == Len(zip_files[z].pages)
          IN  /\ at + n <= slots
              /\ pc' = "attribute"
              /\ Len(zip_files'[z].pages) = slots
              /\ \A k \in 1..slots :
                     (k <= at \/ k > at + n)
                     => zip_files'[z].pages[k] = zip_files[z].pages[k]
              /\ zip_files'[z].pages[slots - 1] = zip_files[z].pages[slots - 1]
      ]_vars

\* C20: the slot where ZipFile::new puts the EOCD page, pg_count - 1, is the
\* slot get_pg_idx_for_offs gives for the EOCD's archive offset
\* cd_offset + cd_sz, and pg_count >= 1 (the skeleton has pg_count + 1 slots).
C20_EocdSlotIsMappedSlot ==
    last.op = "Ok"
    => LET zf == zip_files[last.z]
           pg_count == Len(zf.pages) - 1
       IN  /\ pg_count >= 1
           /\ pg_count - 1
              = get_pg_idx_for_offs(zf, zf.eocd.cd_offset + zf.eocd.cd_sz, page_sz)

-----------------------------------------------------------------------------
(* The parsers on their own: a byte slice is handed to a parser, and the    *)
(* result is encoded and parsed again where the source does so.             *)

DriverIdle ==
    /\ data = << >> /\ page_sz = 1 /\ pool = << >> /\ zip_files = << >>
    /\ pc = "idle" /\ eocd_list = << >> /\ clusters = << >> /\ zi = 0
    /\ rcds = << >> /\ outputs = << >> /\ taken = {} /\ last = NoLast

\* the 4 bytes of a DOS time and date with the given fields (s2 is the 5-bit
\* seconds field, y the 7-bit year field)
DosBytes(h, m, s2, y, mo, d) ==
    u16_to_le(h * 2048 + m * 32 + s2) \o u16_to_le(y * 512 + mo * 32 + d)

DosHours   == {0, 17, 23, 24, 31}
DosMinutes == {0, 35, 59, 60}
DosSeconds == {0, 9, 29, 30}
DosYears   == {0, 36, 126, 127}
DosMonths  == {0, 1, 2, 4, 12, 13}
DosDays    == {0, 1, 7, 29, 30, 31}

DosInputs ==
    {DosBytes(h, m, s2, y, mo, d) :
        h \in DosHours, m \in DosMinutes, s2 \in DosSeconds,
        y \in DosYears, mo \in DosMonths, d \in DosDays}

InitDos ==
    /\ DriverIdle
    /\ truth = [kind |-> "dos"]
    /\ inp \in DosInputs
    /\ res = NoValue
    /\ ppc = "input"

\* parse_dosdatetime on the input
DosParse ==
    /\ ppc = "input"
    /\ res' = [p |-> parse_dosdatetime(inp, 0), enc |-> << >>]
    /\ ppc' = "parsed"
    /\ UNCHANGED << inp, driverVars >>

\* dostime_to_bytes on the parsed epoch
DosEncode ==
    /\ ppc = "parsed"
    /\ res.p.st = "Done"
    /\ res' = [res EXCEPT !.enc = dostime_to_bytes(res.p.v)]
    /\ ppc' = "encoded"
    /\ UNCHANGED << inp, driverVars >>

NextDos == DosParse \/ DosEncode

SpecDos == InitDos /\ [][NextDos]_vars

\* the validity predicate on the fields of a 4-byte DOS time and date
DosValid(b) ==
    /\ (le_u16(b, 0) \div 2048) % 32 < 24
    /\ (le_u16(b, 0) \div 32) % 64 < 60
    /\ 2 * (le_u16(b, 0) % 32) < 60
    /\ 1980 + ((le_u16(b, 2) \div 512) % 128) >= 1970
    /\ (le_u16(b, 2) \div 32) % 16 \in 1..12
    /\ le_u16(b, 2) % 32 \in 1..31

\* C7: for every DOS time and date that satisfies the validity predicate,
\* encoding the parsed epoch gives the original 4 bytes.
C7_EncodeOfParseIsInput ==
    (ppc = "encoded" /\ DosValid(inp)) => res.enc = inp

\* C8: parse_dosdatetime returns a value exactly when the fields satisfy the
\* validity predicate, and otherwise fails as a parse failure, never aborting.
C8_ValueIffValid ==
    ppc = "parsed" => /\ res.p.st # "Panic"
                      /\ (res.p.st = "Done") <=> DosValid(inp)

-----------------------------------------------------------------------------
(* parse_lf, LF::unparse, parse_lf *)

\* an LF header as it lies in a blob, followed by extra field and data
LFRun(t) ==
    MAGIC_LF \o u16_to_le(20) \o u16_to_le(t.flags) \o u16_to_le(8) \o t.ts
    \o (IF t.sig THEN MAGIC_DD ELSE << >>)
    \o u32_to_le(t.crc32) \o u32_to_le(t.sz) \o u32_to_le(t.sz)
    \o u16_to_le(Len(t.name)) \o u16_to_le(t.ef_len) \o t.name
    \o [k \in 1..t.ef_len |-> 85] \o << 1, 2, 3, 4, 5, 6 >>

\* flags: none, DATA_DESCRIPTOR, DATA_DESCRIPTOR with LANG_ENCODING, and a bit
\* that is not one of ZipFlags; times: 2016-04-29, 2107-04-29, 30 February;
\* a crc32 whose bytes are the DD signature; names of valid and invalid UTF-8
LFInputs ==
    [kind : {"lf"}, flags : {0, 8, 2056, 32768},
     ts : {DosBytes(17, 35, 9, 36, 4, 29), DosBytes(17, 35, 9, 127, 4, 29),
           DosBytes(17, 35, 9, 36, 2, 30)},
     sig : BOOLEAN, crc32 : {0, 4097, 134695760}, sz : {0, 5},
     name : {<< >>, << 97 >>, << 195, 168 >>, << 255 >>}, ef_len : {0, 3}]

InitLF ==
    /\ DriverIdle
    /\ truth \in LFInputs
    /\ inp = LFRun(truth)
    /\ res = NoValue
    /\ ppc = "input"

LFParse ==
    /\ ppc = "input"
    /\ res' = [lf |-> parse_lf(inp, 0), bytes |-> << >>, lf2 |-> Fail("None")]
    /\ ppc' = "parsed"
    /\ UNCHANGED << inp, driverVars >>

LFUnparse ==
    /\ ppc = "parsed"
    /\ res.lf.st = "Done"
    /\ res' = [res EXCEPT !.bytes = lf_unparse(res.lf.v)]
    /\ ppc' = "unparsed"
    /\ UNCHANGED << inp, driverVars >>

LFReparse ==
    /\ ppc = "unparsed"
    /\ res' = [res EXCEPT !.lf2 = parse_lf(res.bytes, 0)]
    /\ ppc' = "reparsed"
    /\ UNCHANGED << inp, driverVars >>

NextLF == LFParse \/ LFUnparse \/ LFReparse

SpecLF == InitLF /\ [][NextLF]_vars

\* an LF header as an archiver writes it: no DD signature inside the header,
\* and crc32 and sizes zero when the DATA_DESCRIPTOR flag is set
LFWellFormed ==
    /\ ~truth.sig
    /\ (has_data_descriptor(truth.flags) => truth.crc32 = 0 /\ truth.sz = 0)

\* C9: for an LF parsed from a well-formed byte run, parsing its
\* re-serialisation succeeds and gives a record equal to it in every field.
C9_ReparseGivesSameLF ==
    (ppc = "reparsed" /\ LFWellFormed)
    => res.lf2.st = "Done" /\ res.lf2.v = res.lf.v

-----------------------------------------------------------------------------
(* parse_eocd *)

\* comments: none, ASCII, a two-byte UTF-8 character, a lone continuation
\* byte, a truncated two-byte character
EocdComments == {<< >>, << 67 >>, << 195, 168 >>, << 128 >>, << 67, 195 >>}

\* an EOCD with the given head, entry count, declared and actual comment,
\* followed by extra bytes and then cut to len bytes
EocdRun(t) ==
    Slice(t.head \o u16_to_le(0) \o u16_to_le(0) \o u16_to_le(t.n) \o u16_to_le(t.n)
          \o u32_to_le(47 * t.n) \o u32_to_le(2147483647 - t.n)
          \o u16_to_le(Len(t.cmt) + t.more) \o t.cmt \o t.extra,
          0, Min({t.cut, 22 + Len(t.cmt) + Len(t.extra)}))

EocdInputs ==
    [kind : {"eocd"}, head : {MAGIC_EOCD, MAGIC_CD, << 80, 75, 5, 7 >>},
     n : {1, 258}, cmt : EocdComments, more : {0, 1}, extra : {<< >>, << 9 >>},
     cut : {3, 21, 22, 23, 30}]

InitEocd ==
    /\ DriverIdle
    /\ truth \in EocdInputs
    /\ inp = EocdRun(truth)
    /\ res = NoValue
    /\ ppc = "input"

EocdParse ==
    /\ ppc = "input"
    /\ res' = parse_eocd(inp, 0)
    /\ ppc' = "parsed"
    /\ UNCHANGED << inp, driverVars >>

NextEocd == EocdParse

SpecEocd == InitEocd /\ [][NextEocd]_vars

\* the slice starts with 50 4B 05 06 and is at least 22 + cmt_len bytes long
EocdLongEnough(b) ==
    /\ Len(b) >= 22
    /\ Slice(b, 0, 4) = MAGIC_EOCD
    /\ Len(b) >= 22 + le_u16(b, 20)

\* C10, as stated: parse_eocd succeeds exactly on the slices that start with
\* the magic and are at least 22 + cmt_len bytes long, whatever the comment
\* bytes are.
C10_DoneIffLongEnough ==
    ppc = "parsed" => ((res.st = "Done") <=> EocdLongEnough(inp))

\* C10, amended: parse_eocd succeeds exactly on the slices that start with
\* the magic, are at least 22 + cmt_len bytes long and whose cmt_len comment
\* bytes are valid UTF-8; on success every numeric field is the
\* little-endian value at its fixed offset and the comment is the cmt_len
\* bytes after the header.
C10_DoneIffLongEnoughAndUtf8 ==
    ppc = "parsed"
    => /\ (res.st = "Done")
          <=> (EocdLongEnough(inp) /\ from_utf8(Slice(inp, 22, le_u16(inp, 20))))
       /\ res.st = "Done"
          => /\ res.v.dsk_no = le_u16(inp, 4)
             /\ res.v.dsk_w_cd = le_u16(inp, 6)
             /\ res.v.dsk_entries = le_u16(inp, 8)
             /\ res.v.tot_entries = le_u16(inp, 10)
             /\ res.v.cd_sz = le_u32(inp, 12)
             /\ res.v.cd_offset = le_u32(inp, 16)
             /\ res.v.cmt_len = le_u16(inp, 20)
             /\ res.v.zip_cmt = Slice(inp, 22, le_u16(inp, 20))
             /\ res.n = 22 + le_u16(inp, 20)

\* C10, its case: an EOCD with a comment of more than ASCII is parsed, with
\* bytes left over after it
C10_ParsedWithComment ==
    /\ ppc = "parsed"
    /\ res.st = "Done"
    /\ res.v.zip_cmt = << 195, 168 >>
    /\ res.v.tot_entries = 258
    /\ Len(inp) > res.n

-----------------------------------------------------------------------------
(* parse_cd and parse_lf on headers as they lie in a blob, the clustering   *)
(* fingerprint of a CD, and the LF re-serialisation of step 7               *)

\* a CD header as it lies in a blob, followed by other bytes
CDRun(t) ==
    MAGIC_CD \o u16_to_le(20) \o u16_to_le(20) \o u16_to_le(t.flags) \o u16_to_le(8)
    \o t.ts \o u32_to_le(t.crc32) \o u32_to_le(t.sz) \o u32_to_le(t.sz)
    \o u16_to_le(Len(t.name)) \o u16_to_le(t.ef_len) \o u16_to_le(0) \o u16_to_le(0)
    \o u16_to_le(0) \o u32_to_le(0) \o u32_to_le(7)
    \o t.name \o << 1, 2, 3, 4, 5, 6 >>

\* flags: none, DATA_DESCRIPTOR, UTF, bits 7 to 10, bit 15, all bits; a crc32
\* of small value, of 2^31 and more, and one whose bytes are 50 4B 07 08
HdrInputs ==
    [kind : {"cd", "lf"}, flags : {0, 8, 2048, 1920, 32768, 65535},
     ts : {DosBytes(17, 35, 9, 36, 4, 29)}, sig : {FALSE},
     crc32 : {4097, -1412567278, 134695760}, sz : {0, 5},
     name : {<< >>, << 97 >>, << 1, 0 >>}, ef_len : {0}]

InitHdr ==
    /\ DriverIdle
    /\ truth \in HdrInputs
    /\ inp = (IF truth.kind = "cd" THEN CDRun(truth) ELSE LFRun(truth))
    /\ res = NoValue
    /\ ppc = "input"

\* parse_cd on a CD run
HdrParseCD ==
    /\ ppc = "input"
    /\ truth.kind = "cd"
    /\ res' = [r |-> parse_cd(inp, 0), vec |-> << >>, bytes |-> << >>]
    /\ ppc' = "parsed"
    /\ UNCHANGED << inp, driverVars >>

\* parse_lf on an LF run
HdrParseLF ==
    /\ ppc = "input"
    /\ truth.kind = "lf"
    /\ res' = [r |-> parse_lf(inp, 0), vec |-> << >>, bytes |-> << >>]
    /\ ppc' = "parsed"
    /\ UNCHANGED << inp, driverVars >>

\* the fingerprint of a parsed CD
HdrFingerprint ==
    /\ ppc = "parsed"
    /\ truth.kind = "cd"
    /\ res.r.st = "Done"
    /\ res' = [res EXCEPT !.vec = to_euclidean(res.r.v)]
    /\ ppc' = "vectorized"
    /\ UNCHANGED << inp, driverVars >>

\* LF::from(cd).unparse() for a CD, unparse() for an LF
HdrUnparse ==
    /\ \/ ppc = "vectorized"
       \/ ppc = "parsed" /\ truth.kind = "lf" /\ res.r.st = "Done"
    /\ res' = [res EXCEPT !.bytes = IF truth.kind = "cd" THEN lf_unparse(to_lf(res.r.v))
                                    ELSE lf_unparse(res.r.v)]
    /\ ppc' = "unparsed"
    /\ UNCHANGED << inp, driverVars >>

NextHdr == HdrParseCD \/ HdrParseLF \/ HdrFingerprint \/ HdrUnparse

SpecHdr == InitHdr /\ [][NextHdr]_vars

\* C11: in every CD (LF) that parse_cd (parse_lf) accepts, fn_len is the
\* little-endian u16 at offset 28 (26) and filename is the fn_len bytes at
\* offset 46 (30), whatever the bytes of crc32, z_sz and u_sz are.
C11_NameAtFixedOffset ==
    (ppc = "parsed" /\ res.r.st = "Done")
    => LET lenAt == IF truth.kind = "cd" THEN 28 ELSE 26
           nameAt == IF truth.kind = "cd" THEN 46 ELSE 30
       IN  /\ res.r.v.fn_len = le_u16(inp, lenAt)
           /\ res.r.v.filename = Slice(inp, nameAt, le_u16(inp, lenAt))

\* C16: the gp_flags bits stored in a parsed CD or LF, the bits used in the
\* clustering fingerprint and the bits written by the LF re-serialisation
\* equal the raw 16-bit field of the header, its bits outside the named flags
\* included.
C16_FlagBitsKept ==
    (ppc # "input" /\ res.r.st = "Done")
    => LET raw == le_u16(inp, IF truth.kind = "cd" THEN 8 ELSE 6)
       IN  /\ res.r.v.gp_flags = raw
           /\ ppc = "vectorized" => res.vec[5] = raw
           /\ ppc = "unparsed" => le_u16(res.bytes, 6) = raw

-----------------------------------------------------------------------------
(* The two signature scanners on their own *)

\* the middle of a scanned blob: nothing, the pattern, the pattern twice in a
\* row, twice with a byte between, the pattern short of its last byte, the
\* pattern's first two bytes twice and then its last two
ScanBody(pat, code) ==
    CASE code = 0 -> << >>
      [] code = 1 -> pat
      [] code = 2 -> pat \o pat
      [] code = 3 -> pat \o << 0 >> \o pat
      [] code = 4 -> Slice(pat, 0, 3)
      [] code = 5 -> Slice(pat, 0, 2) \o pat

ScanInputs ==
    [kind : {"scan"}, pat : {MAGIC_EOCD, MAGIC_CD, MAGIC_LF}, pre : 0..2,
     body : 0..5, post : 0..2]

InitScan ==
    /\ DriverIdle
    /\ truth \in ScanInputs
    /\ inp = Filler(truth.pre) \o ScanBody(truth.pat, truth.body) \o Filler(truth.post)
    /\ res = NoValue
    /\ ppc = "input"

\* FragSys::find_bytes, the scanner of find_eocds and find_lfs
ScanMethod ==
    /\ ppc = "input"
    /\ \E f \in {fragsys_find_bytes(inp, truth.pat)} :
           res' = [st |-> f[1], offs |-> f[2]]
    /\ ppc' = "method"
    /\ UNCHANGED << inp, driverVars >>

\* find_bytes, the scanner of find_cds
ScanFree ==
    /\ ppc = "input"
    /\ res' = [st |-> "Ok", offs |-> find_bytes(inp, truth.pat)]
    /\ ppc' = "free"
    /\ UNCHANGED << inp, driverVars >>

NextScan == ScanMethod \/ ScanFree

SpecScan == InitScan /\ [][NextScan]_vars

\* the offsets at which the pattern lies in the blob, ascending
Occurrences(b, pat) ==
    SetToSeq({i \in 0..(Len(b) - 4) : Slice(b, i, 4) = pat})

\* C14: both scanners return, in ascending order, exactly the offsets i in
\* 0 .. N - 4 at which the pattern lies, a match in the last four bytes
\* included, and the empty list without failing on a blob of less than 4 bytes.
C14_ScannersFindAll ==
    ppc \in {"method", "free"}
    => (res.st = "Ok" /\ res.offs = Occurrences(inp, truth.pat))

-----------------------------------------------------------------------------
(* ZipFile::assign_page on its own: a skeleton, a slot index and a page *)

MaxSlots == 2

\* the page lists of up to MaxSlots slots
SlotLists ==
    UNION {[1..n -> {Unassigned, Assigned(0, 64), Assigned(64, 128)}] : n \in 0..MaxSlots}

AssignInputs ==
    [kind : {"assign"}, pages : SlotLists, idx : 0..(MaxSlots + 2),
     page : {Assigned(128, 192), Assigned(192, 256)}]

InitAssign ==
    /\ HarnessIdle
    /\ truth \in AssignInputs
    /\ data = << >>
    /\ page_sz = 64
    /\ pool = << >>
    /\ zip_files = << [init_offs |-> 64, eocd |-> NoValue, pages |-> truth.pages] >>
    /\ pc = "call"
    /\ eocd_list = << >>
    /\ clusters = << >>
    /\ zi = 1
    /\ rcds = << >>
    /\ outputs = << >>
    /\ taken = {}
    /\ last = NoLast

\* zip.assign_page(idx, page)
AssignPage ==
    /\ pc = "call"
    /\ \E a \in {assign_page(zip_files[zi].pages, truth.idx, truth.page)} :
           /\ zip_files' = [zip_files EXCEPT ![zi].pages = a[2]]
           /\ pc' = IF a[1] = "Abort" THEN "abort" ELSE "returned"
    /\ last' = [op |-> "assign_page", z |-> zi, at |-> truth.idx, n |-> 1]
    /\ UNCHANGED << data, page_sz, pool, eocd_list, clusters, zi, rcds, outputs,
                    taken, truth, harnessVars >>

NextAssign == AssignPage

SpecAssign == InitAssign /\ [][NextAssign]_vars

\* C18: assign_page(idx, page) writes page at slot idx when idx < len(pages);
\* for every idx >= len(pages), idx = len(pages) included, it returns and
\* leaves the page list as it was.
C18_AssignPageInRangeOrNoop ==
    last.op = "assign_page"
    => /\ pc = "returned"
       /\ zip_files[zi].pages
          = IF truth.idx < Len(truth.pages)
            THEN [truth.pages EXCEPT ![truth.idx + 1] = truth.page]
            ELSE truth.pages

====
